---- MODULE Spec2Model ----
(***************************************************************************)
(* Model of the zenodo-rdm legacy serializer schemas                       *)
(* (site/zenodo_rdm/legacy/serializers/schemas/legacyjson.py), the legacy  *)
(* record migration transform (site/zenodo_rdm/migrator/transform/         *)
(* records.py) and the blueprint error handler (site/zenodo_rdm/views.py). *)
(*                                                                         *)
(* Conventions.  A Python dict is a TLA+ record (a function on strings);   *)
(* an absent key is a string outside its DOMAIN.  A Python str whose       *)
(* characters matter (split, "in") is a sequence of one-character strings; *)
(* an f-string over opaque parts is the tuple of its parts.  The outcome   *)
(* of a call is a record whose kind is "return", "missing" (marshmallow's  *)
(* missing sentinel) or "raise" (with the exception's class in exc).       *)
(***************************************************************************)
EXTENDS Integers, Sequences, FiniteSets, TLC

VARIABLES
    obj,        \* dump_grants: the metadata object being dumped
    grants,     \* dump_grants: outcome of the call
    data,       \* hook_alternate_identifiers: the metadata dict, mutated in place
    data0,      \* hook_alternate_identifiers: the dict as it was before any call
    hook_calls, \* hook_alternate_identifiers: number of calls made on data
    record,     \* LegacySchema: the record object being dumped
    legacy,     \* LegacySchema: outcome (state, submitted, files)
    entry,      \* migrator: the legacy entry being transformed
    rdm,        \* migrator: outcome of the transform (access, metadata, parent)
    dumped,     \* MetadataSchema.dump_resource_type applied to the migrated metadata
    e,          \* handle_validation_errors: the error delivered
    response    \* handle_validation_errors: outcome

vars == <<obj, grants, data, data0, hook_calls, record, legacy, entry, rdm, dumped, e, response>>

grants_vars == <<obj, grants>>
hook_vars == <<data, data0, hook_calls>>
legacy_vars == <<record, legacy>>
migrator_vars == <<entry, rdm, dumped>>
views_vars == <<e, response>>

\* Value of a variable that the specification at hand does not use, and of
\* an outcome variable before the call it records.
Idle == [kind |-> "idle"]

GrantsIdle == obj = Idle /\ grants = Idle
HookIdle == data = Idle /\ data0 = Idle /\ hook_calls = 0
LegacyIdle == record = Idle /\ legacy = Idle
MigratorIdle == entry = Idle /\ rdm = Idle /\ dumped = Idle
ViewsIdle == e = Idle /\ response = Idle

\* Sequences over S of length at most n.
SeqUpTo(S, n) == UNION {[1..k -> S] : k \in 0..n}

(***************************************************************************)
(* MetadataSchema.dump_grants                                              *)
(***************************************************************************)

\* Longest funding list drawn.
MaxFunding == 3

\* The awards vocabulary: what a_service.read(system_identity, aid).to_dict()
\* returns for the ids that resolve.
AwardsVocabulary ==
    [a \in {"a1", "a2", "a3"} |->
        CASE a = "a1" -> [id |-> "a1", number |-> "n1", funder |-> [id |-> "ror1"]]
          [] a = "a2" -> [id |-> "a2", number |-> "n2", funder |-> [id |-> "ror2"]]
          [] a = "a3" -> [id |-> "a3", number |-> "n1", funder |-> [id |-> "ror3"]]]

\* Award ids whose PID was deleted, and every award id a funding entry may name.
DeletedAwards == {"ad"}
AwardIds == DOMAIN AwardsVocabulary \cup DeletedAwards \cup {"ax"}

\* The funders vocabulary: every vocabulary award links a vocabulary funder.
FundersVocabulary == [f \in {"ror1", "ror2", "ror3"} |-> [id |-> f]]

\* a_service.read: the award's dict, or the PID error the service raises.
awards_read(aid) ==
    IF aid \in DOMAIN AwardsVocabulary
    THEN [kind |-> "return", value |-> AwardsVocabulary[aid]]
    ELSE IF aid \in DeletedAwards
    THEN [kind |-> "raise", exc |-> "PIDDeletedError"]
    ELSE [kind |-> "raise", exc |-> "PIDDoesNotExistError"]

\* FUNDER_ROR_TO_DOI.get(ror): the funder's DOI, or None, which the f-string
\* formats as "None".
FUNDER_ROR_TO_DOI(ror) ==
    CASE ror = "ror1" -> "10.13039/1"
      [] ror = "ror2" -> "10.13039/2"
      [] OTHER -> "None"

\* Outcomes of dump_grants, with the ids passed to the awards and to the
\* funders service on the way.
GrantsOutcome(kind, value, exc, areads, freads) ==
    [kind |-> kind, value |-> value, exc |-> exc,
     awards_read |-> areads, funders_read |-> freads]

\* Mutant of on_pid_error: the except clause leaves the loop and keeps the
\* grants built so far.
on_pid_error_keeps(ret, areads, freads) ==
    GrantsOutcome("return", ret, "", areads, freads)

\* What the except clause of the awards read returns.
on_pid_error(ret, areads, freads) ==
    GrantsOutcome("missing", <<>>, "", areads, freads)

\* Mutant of grant_funder_id: the funder given in the funding entry is used.
grant_funder_id_entry(funding_item, award) == funding_item.funder.id

\* The funder id the grant is built from: that of the award read (or given).
grant_funder_id(funding_item, award) == award.funder.id

\* The loop body of dump_grants from entry i on, ret being the grants built.
RECURSIVE grants_loop(_, _, _, _, _)
grants_loop(funding, i, ret, areads, freads) ==
    IF i > Len(funding)
    THEN GrantsOutcome("return", ret, "", areads, freads)
    ELSE LET funding_item == funding[i] IN
      IF "award" \notin DOMAIN funding_item
      THEN \* award is None: award.get("id")
           GrantsOutcome("raise", <<>>, "AttributeError", areads, freads)
      ELSE
        LET given == funding_item.award
            has_aid == "id" \in DOMAIN given
            areads1 == IF has_aid THEN Append(areads, given.id) ELSE areads
            read == IF has_aid THEN awards_read(given.id)
                    ELSE [kind |-> "return", value |-> given]
        IN IF read.kind = "raise"
           THEN on_pid_error(ret, areads1, freads)
           ELSE
             LET award == read.value IN
             IF "funder" \notin DOMAIN award
             THEN \* award["funder"]
                  GrantsOutcome("raise", <<>>, "KeyError", areads1, freads)
             ELSE
               LET fid == grant_funder_id(funding_item, award)
                   freads1 == Append(freads, fid)
               IN IF fid \notin DOMAIN FundersVocabulary
                  THEN GrantsOutcome("raise", <<>>, "PIDDoesNotExistError", areads1, freads1)
                  ELSE
                    LET funder == FundersVocabulary[fid]
                        award_number == award.number
                        funder_doi == FUNDER_ROR_TO_DOI(funder.id)
                        serialized_grant == [id |-> <<funder_doi, "::", award_number>>]
                    IN grants_loop(funding, i + 1, Append(ret, serialized_grant),
                                   areads1, freads1)

dump_grants(o) ==
    IF "funding" \notin DOMAIN o \/ o.funding = <<>>
    THEN GrantsOutcome("missing", <<>>, "", <<>>, <<>>)
    ELSE grants_loop(o.funding, 1, <<>>, <<>>, <<>>)

\* Funding entries: an award of the vocabulary (by id), a funder alone, or a
\* custom award (number and title, no id).
EntryFunders == {"ror1", "ror2"}
VocabularyFunding == {[funder |-> [id |-> f], award |-> [id |-> a]] : f \in EntryFunders, a \in AwardIds}
FunderOnlyFunding == {[funder |-> [id |-> f]] : f \in EntryFunders}
CustomFunding == {[funder |-> [id |-> f], award |-> [number |-> "n9", title |-> "t9"]] : f \in EntryFunders}
FundingItems == VocabularyFunding \cup FunderOnlyFunding \cup CustomFunding

MetadataObjects ==
    {[title |-> "t"]} \cup {[title |-> "t", funding |-> f] : f \in SeqUpTo(FundingItems, MaxFunding)}

InitGrants ==
    /\ obj \in MetadataObjects
    /\ grants = Idle
    /\ HookIdle /\ LegacyIdle /\ MigratorIdle /\ ViewsIdle

DumpGrants ==
    /\ grants = Idle
    /\ grants' = dump_grants(obj)
    /\ UNCHANGED <<obj, hook_vars, legacy_vars, migrator_vars, views_vars>>

NextGrants == DumpGrants

SpecGrants == InitGrants /\ [][NextGrants]_vars

\* Every entry of the funding list names an award id that resolves.
AllAwardsResolve(o) ==
    /\ "funding" \in DOMAIN o
    /\ o.funding # <<>>
    /\ \A i \in 1..Len(o.funding) :
          /\ "award" \in DOMAIN o.funding[i]
          /\ "id" \in DOMAIN o.funding[i].award
          /\ o.funding[i].award.id \in DOMAIN AwardsVocabulary

\* The grant the claim expects of a funding entry naming a resolving award.
ExpectedGrant(funding_item) ==
    LET award == AwardsVocabulary[funding_item.award.id]
    IN [id |-> <<FUNDER_ROR_TO_DOI(award.funder.id), "::", award.number>>]

\* C1: when every funding entry names an award id that resolves, dump_grants
\* returns one grant per entry, in order, each {"id": "<funder DOI>::<award
\* number>"} built from the resolved award's number and the DOI of the
\* funder linked from the resolved award, not the entry's own funder.
C1_GrantsPerEntry ==
    (grants # Idle /\ AllAwardsResolve(obj)) =>
        /\ grants.kind = "return"
        /\ Len(grants.value) = Len(obj.funding)
        /\ \A i \in 1..Len(obj.funding) : grants.value[i] = ExpectedGrant(obj.funding[i])

\* Three resolving entries, with an entry whose own funder is not the award's
\* and an award whose funder has no DOI, have been dumped.
C1_Witness ==
    /\ grants # Idle
    /\ AllAwardsResolve(obj)
    /\ Len(obj.funding) = 3
    /\ \E i \in 1..3 : obj.funding[i].funder.id
                          # AwardsVocabulary[obj.funding[i].award.id].funder.id
    /\ \E i \in 1..3 : obj.funding[i].award.id = "a3"
    /\ grants.kind = "return"

\* The funding list holds a funder-only entry or a custom award.
HasUnsupportedFunding(o) ==
    /\ "funding" \in DOMAIN o
    /\ \E i \in 1..Len(o.funding) :
          \/ "award" \notin DOMAIN o.funding[i]
          \/ "id" \notin DOMAIN o.funding[i].award

\* C2: for any funding list holding a funder-only entry or a custom award,
\* dump_grants returns missing and raises no error.
C2_UnsupportedFundingIsMissing ==
    (grants # Idle /\ HasUnsupportedFunding(obj)) => grants.kind = "missing"

\* The awards service raised for the j-th id read.
ReadRaised(g, j) == awards_read(g.awards_read[j]).kind = "raise"

\* C3: if the awards service raises a PID error for the award id of an entry,
\* at whatever position, the result is missing: the grants built from the
\* earlier entries (one funder read each) are dropped and no later entry is
\* read; the result is also missing, with no read at all, when the funding
\* field is absent or empty.
C3_AllOrNothing ==
    grants # Idle =>
        /\ \A j \in 1..Len(grants.awards_read) :
              ReadRaised(grants, j) =>
                 /\ grants.kind = "missing"
                 /\ grants.value = <<>>
                 /\ j = Len(grants.awards_read)
                 /\ Len(grants.funders_read) = j - 1
                 /\ \A k \in 1..j : obj.funding[k].award.id = grants.awards_read[k]
        /\ ("funding" \notin DOMAIN obj \/ obj.funding = <<>>) =>
              /\ grants.kind = "missing"
              /\ grants.awards_read = <<>>

\* The awards service raised at the second of three entries: a grant had been
\* built from the first, the third was never read.
C3_Witness ==
    /\ grants # Idle
    /\ "funding" \in DOMAIN obj
    /\ Len(obj.funding) = 3
    /\ Len(grants.awards_read) = 2
    /\ ReadRaised(grants, 2)
    /\ Len(grants.funders_read) = 1
    /\ "award" \in DOMAIN obj.funding[3]
    /\ "id" \in DOMAIN obj.funding[3].award
    /\ grants.kind = "missing"

(***************************************************************************)
(* MetadataSchema.hook_alternate_identifiers                               *)
(***************************************************************************)

\* Longest identifiers and related_identifiers lists drawn, and the number
\* of calls of the hook followed on one metadata dict.
MaxIdentifiers == 2
MaxHookCalls == 3

\* dict.get(key, default)
Get(d, key, default) == IF key \in DOMAIN d THEN d[key] ELSE default

\* d[key] = value
SetItem(d, key, value) ==
    [k \in DOMAIN d \cup {key} |-> IF k = key THEN value ELSE d[k]]

\* The related identifier built from one alternate identifier.
related_identifier(identifier) ==
    [relation_type |-> [id |-> "isAlternateIdentifier"],
     identifier |-> identifier.identifier]

\* The for loop: one append per alternate identifier, from the i-th on.
RECURSIVE append_alternates(_, _, _)
append_alternates(related_identifiers, alternate_identifiers, i) ==
    IF i > Len(alternate_identifiers)
    THEN related_identifiers
    ELSE append_alternates(
             Append(related_identifiers, related_identifier(alternate_identifiers[i])),
             alternate_identifiers, i + 1)

\* Mutant of hook_alternate_identifiers: the entries are built from a fresh
\* list and replace the related identifiers already there.
hook_alternate_identifiers_fresh(d) ==
    LET related_identifiers == append_alternates(<<>>, Get(d, "identifiers", <<>>), 1)
    IN IF related_identifiers # <<>>
       THEN SetItem(d, "related_identifiers", related_identifiers)
       ELSE d

\* The dict after the hook.  The list under related_identifiers, when the
\* key is there, is the object the loop appends to; otherwise the list is a
\* new one, stored only when it is not empty.
hook_alternate_identifiers(d) ==
    LET alternate_identifiers == Get(d, "identifiers", <<>>)
        related_identifiers ==
            append_alternates(Get(d, "related_identifiers", <<>>), alternate_identifiers, 1)
    IN IF related_identifiers # <<>>
       THEN SetItem(d, "related_identifiers", related_identifiers)
       ELSE d

AlternateIdentifiers ==
    {[identifier |-> "i1", scheme |-> "doi"], [identifier |-> "i2", scheme |-> "url"]}
RelatedIdentifiers ==
    {[identifier |-> "r1", relation_type |-> [id |-> "cites"]],
     [identifier |-> "i1", relation_type |-> [id |-> "isAlternateIdentifier"]]}

HookData ==
    LET ids == SeqUpTo(AlternateIdentifiers, MaxIdentifiers)
        rels == SeqUpTo(RelatedIdentifiers, MaxIdentifiers)
    IN {[title |-> "t"]}
       \cup {[title |-> "t", identifiers |-> i] : i \in ids}
       \cup {[title |-> "t", related_identifiers |-> r] : r \in rels}
       \cup {[title |-> "t", identifiers |-> i, related_identifiers |-> r] : i \in ids, r \in rels}

InitHook ==
    /\ data \in HookData
    /\ data0 = data
    /\ hook_calls = 0
    /\ GrantsIdle /\ LegacyIdle /\ MigratorIdle /\ ViewsIdle

HookAlternateIdentifiers ==
    /\ hook_calls < MaxHookCalls
    /\ data' = hook_alternate_identifiers(data)
    /\ hook_calls' = hook_calls + 1
    /\ UNCHANGED <<data0, grants_vars, legacy_vars, migrator_vars, views_vars>>

NextHook == HookAlternateIdentifiers

SpecHook == InitHook /\ [][NextHook]_vars

\* The entries the claim expects for a list of alternate identifiers.
ExpectedAlternates(ids) ==
    [i \in 1..Len(ids) |->
        [relation_type |-> [id |-> "isAlternateIdentifier"], identifier |-> ids[i].identifier]]

\* k copies of a sequence, one after the other.
RECURSIVE Copies(_, _)
Copies(seq, k) == IF k = 0 THEN <<>> ELSE seq \o Copies(seq, k - 1)

\* C9: after k calls of the hook on one metadata dict, identifiers is as it
\* was, and related_identifiers holds the original related identifiers, in
\* their positions, followed by k copies of the alternate-identifier entries
\* (one per alternate identifier, in order); the key is absent only when it
\* was absent at first and no entry was appended.
C9_HookAppends ==
    data # Idle =>
        LET ids == Get(data0, "identifiers", <<>>)
            rel0 == Get(data0, "related_identifiers", <<>>)
        IN /\ ("identifiers" \in DOMAIN data) = ("identifiers" \in DOMAIN data0)
           /\ Get(data, "identifiers", <<>>) = ids
           /\ Get(data, "related_identifiers", <<>>)
                  = rel0 \o Copies(ExpectedAlternates(ids), hook_calls)
           /\ ("related_identifiers" \notin DOMAIN data) =>
                  (rel0 = <<>> /\ (ids = <<>> \/ hook_calls = 0))
           /\ ("related_identifiers" \notin DOMAIN data0 /\ (ids = <<>> \/ hook_calls = 0)) =>
                  "related_identifiers" \notin DOMAIN data

\* Two calls on a dict with one related identifier and two alternate ones.
C9_Witness ==
    /\ data # Idle
    /\ hook_calls = 2
    /\ "related_identifiers" \in DOMAIN data0
    /\ Len(data0.related_identifiers) = 1
    /\ Len(Get(data0, "identifiers", <<>>)) = 2
    /\ Len(data.related_identifiers) = 5

(***************************************************************************)
(* Python str operations, on sequences of characters                       *)
(***************************************************************************)

\* sep in s
Contains(s, sep) == \E i \in 1..Len(s) : s[i] = sep

\* s.find(sep), counted from 1; s holds sep.
Find(s, sep) == CHOOSE i \in 1..Len(s) : s[i] = sep /\ \A j \in 1..(i - 1) : s[j] # sep

\* s.split(sep, maxsplit) for a one-character sep; maxsplit = -1 is no limit.
RECURSIVE str_split(_, _, _)
str_split(s, sep, maxsplit) ==
    IF maxsplit = 0 \/ ~Contains(s, sep)
    THEN <<s>>
    ELSE LET i == Find(s, sep)
         IN <<SubSeq(s, 1, i - 1)>> \o str_split(SubSeq(s, i + 1, Len(s)), sep, maxsplit - 1)

(***************************************************************************)
(* LegacySchema: dump_state, submitted, dump_files                         *)
(***************************************************************************)

\* Most entries of files.entries drawn.
MaxFiles == 2

\* Mutant of dump_state: the draft flag is looked at whatever is_published is.
dump_state_draft_first(o) ==
    IF o.is_draft THEN "inprogress"
    ELSE IF o.is_published THEN "done" ELSE "unsubmitted"

dump_state(o) ==
    IF o.is_published
    THEN IF o.is_draft THEN "inprogress" ELSE "done"
    ELSE "unsubmitted"

\* submitted = fields.Bool(attribute="is_published"): marshmallow's Boolean
\* gives True for a truthy value and False for a falsy one.
dump_submitted(o) == IF o.is_published THEN TRUE ELSE FALSE

\* Mutant of checksum_without_prefix: split without its maxsplit.
checksum_without_prefix_all(checksum) ==
    LET parts == str_split(checksum, ":", -1)
    IN IF Len(parts) < 2 THEN [kind |-> "raise", exc |-> "IndexError"]
       ELSE [kind |-> "return", value |-> parts[2]]

\* f["checksum"].split(":", 1)[1]
checksum_without_prefix(checksum) ==
    LET parts == str_split(checksum, ":", 1)
    IN IF Len(parts) < 2 THEN [kind |-> "raise", exc |-> "IndexError"]
       ELSE [kind |-> "return", value |-> parts[2]]

\* The links of one file object.
file_links(o, f) ==
    LET self == <<o.links.files, "/", f.id>>
    IN IF "bucket" \in DOMAIN o.links
       THEN [self |-> self, download |-> <<o.links.bucket, "/", f.key>>]
       ELSE [self |-> self]

\* The loop of dump_files over files.entries.values(), from the i-th on.
RECURSIVE files_loop(_, _, _)
files_loop(o, i, result) ==
    IF i > Len(o.files.entries)
    THEN IF result = <<>> THEN [kind |-> "missing", value |-> <<>>, exc |-> ""]
         ELSE [kind |-> "return", value |-> result, exc |-> ""]
    ELSE LET f == o.files.entries[i]
             checksum == checksum_without_prefix(f.checksum)
         IN IF checksum.kind = "raise"
            THEN [kind |-> "raise", value |-> <<>>, exc |-> checksum.exc]
            ELSE files_loop(o, i + 1,
                     Append(result,
                            [id |-> f.id, filename |-> f.key, filesize |-> f.size,
                             checksum |-> checksum.value, links |-> file_links(o, f)]))

dump_files(o) == files_loop(o, 1, <<>>)

\* Stored checksums, "<algorithm>:<digest>": a plain one, one whose digest
\* holds a ":", one with an empty algorithm, one with an empty digest.
Checksums ==
    {<<"m", ":", "a">>, <<"m", ":", "a", ":", "b">>, <<":", "a">>, <<"m", ":">>}

FileKeys == {"k1", "k2", "k3"}
FileId(key) == CASE key = "k1" -> "f1" [] key = "k2" -> "f2" [] OTHER -> "f3"
FileEntries ==
    {[id |-> FileId(k), key |-> k, size |-> z, checksum |-> c] :
        k \in FileKeys, z \in {0, 7}, c \in Checksums}

\* files.entries is a dict keyed by file key: its values, in order, have
\* distinct keys.
EntriesDicts ==
    {v \in SeqUpTo(FileEntries, MaxFiles) :
        \A i, j \in 1..Len(v) : i # j => v[i].key # v[j].key}

RecordLinks == {[files |-> "files_url"], [files |-> "files_url", bucket |-> "bucket_url"]}

Records ==
    {[is_published |-> p, is_draft |-> d, links |-> l, files |-> [entries |-> v]] :
        p \in BOOLEAN, d \in BOOLEAN, l \in RecordLinks, v \in EntriesDicts}

InitLegacy ==
    /\ record \in Records
    /\ legacy = Idle
    /\ GrantsIdle /\ HookIdle /\ MigratorIdle /\ ViewsIdle

DumpLegacy ==
    /\ legacy = Idle
    /\ legacy' = [kind |-> "dumped",
                  state |-> dump_state(record),
                  submitted |-> dump_submitted(record),
                  files |-> dump_files(record)]
    /\ UNCHANGED <<record, grants_vars, hook_vars, migrator_vars, views_vars>>

NextLegacy == DumpLegacy

SpecLegacy == InitLegacy /\ [][NextLegacy]_vars

\* C4: dump_state gives "unsubmitted" when is_published is false, whatever
\* is_draft is, "inprogress" when both are true and "done" when is_published
\* is true and is_draft false; so state is "unsubmitted" exactly when the
\* dumped submitted field is false.
C4_StateOfFlags ==
    legacy # Idle =>
        /\ (~record.is_published) => legacy.state = "unsubmitted"
        /\ (record.is_published /\ record.is_draft) => legacy.state = "inprogress"
        /\ (record.is_published /\ ~record.is_draft) => legacy.state = "done"
        /\ (legacy.state = "unsubmitted") <=> (legacy.submitted = FALSE)

\* A record that is a draft and not published has been dumped.
C4_Witness ==
    /\ legacy # Idle
    /\ record.is_draft
    /\ ~record.is_published
    /\ legacy.state = "unsubmitted"

\* Everything after the first ":" of a stored checksum.
AfterFirstColon(c) ==
    LET colons == {i \in 1..Len(c) : c[i] = ":"}
        first == CHOOSE i \in colons : \A j \in colons : i <= j
    IN [k \in 1..(Len(c) - first) |-> c[first + k]]

\* C8: dump_files returns missing when files.entries is empty, and otherwise
\* one file object per entry, in order, with filename = key, filesize = size,
\* checksum = what follows the first ":" of the stored checksum, the self
\* link "<links.files>/<id>", and the download link "<links.bucket>/<key>" in
\* every file object when the record has a bucket link and in none otherwise.
C8_FilesPerEntry ==
    legacy # Idle =>
        LET entries == record.files.entries
            out == legacy.files
        IN /\ (entries = <<>>) => out.kind = "missing"
           /\ (entries # <<>>) =>
                /\ out.kind = "return"
                /\ Len(out.value) = Len(entries)
                /\ \A i \in 1..Len(entries) :
                     /\ out.value[i].id = entries[i].id
                     /\ out.value[i].filename = entries[i].key
                     /\ out.value[i].filesize = entries[i].size
                     /\ out.value[i].checksum = AfterFirstColon(entries[i].checksum)
                     /\ out.value[i].links.self = <<record.links.files, "/", entries[i].id>>
                     /\ ("download" \in DOMAIN out.value[i].links)
                            <=> ("bucket" \in DOMAIN record.links)
                     /\ ("bucket" \in DOMAIN record.links) =>
                            out.value[i].links.download
                                = <<record.links.bucket, "/", entries[i].key>>

\* Two files, one of them with a ":" in its digest, of a record with a bucket
\* link have been dumped.
C8_Witness ==
    /\ legacy # Idle
    /\ Len(record.files.entries) = 2
    /\ record.files.entries[2].checksum = <<"m", ":", "a", ":", "b">>
    /\ "bucket" \in DOMAIN record.links
    /\ legacy.files.kind = "return"
    /\ legacy.files.value[2].checksum = <<"a", ":", "b">>

(***************************************************************************)
(* Migrator: ZenodoRecordEntry._access, ._metadata._resource_type,         *)
(* ZenodoRecordTransform._community_id and ._parent, followed by           *)
(* MetadataSchema.dump_resource_type on the migrated metadata              *)
(***************************************************************************)

\* Longest legacy communities list, and longest type and subtype drawn.
MaxCommunities == 2
MaxTypeLen == 2

\* Mutant of _access: the files of an embargoed record are left public.
_access_embargo_public(en) ==
    LET rec == en.json
        r == [record |-> "public",
              files |-> IF rec.access_right \in {"open", "embargoed"}
                        THEN "public" ELSE "restricted"]
    IN IF rec.access_right = "embargoed"
       THEN [kind |-> "return",
             value |-> SetItem(r, "embargo", [until |-> rec.embargo_date, active |-> TRUE])]
       ELSE [kind |-> "return", value |-> r]

\* ZenodoRecordEntry._access
_access(en) ==
    LET rec == en.json
        is_open == rec.access_right = "open"
        r == [record |-> "public",
              files |-> IF is_open THEN "public" ELSE "restricted"]
    IN IF rec.access_right = "embargoed"
       THEN IF "embargo_date" \notin DOMAIN rec
            THEN [kind |-> "raise", exc |-> "KeyError"]
            ELSE [kind |-> "return",
                  value |-> SetItem(r, "embargo",
                                    [until |-> rec.embargo_date, active |-> TRUE])]
       ELSE [kind |-> "return", value |-> r]

\* _metadata's _resource_type: "<t>-<st>" when the subtype is there and not
\* empty, t otherwise.
_resource_type(d) ==
    LET t == d.type
        st == Get(d, "subtype", <<>>)
    IN IF st # <<>> THEN [id |-> t \o <<"-">> \o st] ELSE [id |-> t]

\* Mutant of _community_id: every slug of the legacy record goes into ids.
_community_id_all_slugs(en) ==
    LET communities == Get(en.json, "communities", <<>>)
    IN IF communities # <<>> /\ communities[1] # ""
       THEN [ids |-> communities, default |-> communities[1]]
       ELSE <<>>

\* ZenodoRecordTransform._community_id; {} is the empty function.
_community_id(en) ==
    LET communities == Get(en.json, "communities", <<>>)
    IN IF communities # <<>>
       THEN LET slug == communities[1]
            IN IF slug # "" THEN [ids |-> <<slug>>, default |-> slug] ELSE <<>>
       ELSE <<>>

\* ZenodoRecordTransform._parent
_parent(en) ==
    [created |-> en.created,
     updated |-> en.updated,
     version_id |-> en.version_id,
     json |-> [id |-> en.json.conceptrecid,
               access |-> [owned_by |->
                              LET owners == Get(en.json, "owners", <<>>)
                              IN [i \in 1..Len(owners) |-> [user |-> owners[i]]]],
               communities |-> _community_id(en)]]

\* The keys dump_resource_type writes: "upload_type", and the f-string
\* "<upload_type>_type".
UploadTypeKey == <<"u", "p", "l", "o", "a", "d", "_", "t", "y", "p", "e">>
TypeKey(upload_type) == upload_type \o <<"_", "t", "y", "p", "e">>

\* Mutant of dump_resource_type: the subtype is taken from the first part of
\* the split id.
dump_resource_type_first_part(result, original) ==
    LET resource_type_id == Get(Get(original, "resource_type", <<>>), "id", <<>>)
    IN IF resource_type_id # <<>>
       THEN LET parts == str_split(resource_type_id, "-", -1)
                upload_type == parts[1]
                result1 == SetItem(result, UploadTypeKey, upload_type)
            IN IF Contains(resource_type_id, "-")
               THEN SetItem(result1, TypeKey(upload_type), parts[1])
               ELSE result1
       ELSE result

\* MetadataSchema.dump_resource_type: the result dict after the hook.
dump_resource_type(result, original) ==
    LET resource_type_id == Get(Get(original, "resource_type", <<>>), "id", <<>>)
    IN IF resource_type_id # <<>>
       THEN LET parts == str_split(resource_type_id, "-", -1)
                upload_type == parts[1]
                result1 == SetItem(result, UploadTypeKey, upload_type)
            IN IF Contains(resource_type_id, "-")
               THEN SetItem(result1, TypeKey(upload_type), parts[Len(parts)])
               ELSE result1
       ELSE result

\* Legacy access: the embargo date stays on a record whose embargo was
\* lifted, and an embargoed record has one.
EmbargoDates == {"2030-01-01", "2031-06-30"}
LegacyAccess ==
    {[access_right |-> a] : a \in {"open", "restricted", "closed"}}
    \cup {[access_right |-> a, embargo_date |-> "2030-01-01"] : a \in {"open", "restricted", "closed"}}
    \cup {[access_right |-> "embargoed", embargo_date |-> d] : d \in EmbargoDates}

\* Legacy communities: no key, or a list of slugs.
LegacyCommunities ==
    {[k \in {} |-> <<>>]}
    \cup {[communities |-> c] : c \in SeqUpTo({"", "c1", "c2"}, MaxCommunities)}

\* Legacy resource types: the type is a non-empty string, the subtype a
\* string, and both may hold a "-"; the type may be the word "upload".
Upload == <<"u", "p", "l", "o", "a", "d">>
LegacyTypes == (SeqUpTo({"p", "-"}, MaxTypeLen) \ {<<>>}) \cup {Upload}
LegacySubtypes == SeqUpTo({"q", "-"}, MaxTypeLen)
LegacyResourceTypes ==
    {[type |-> t] : t \in LegacyTypes}
    \cup {[type |-> t, subtype |-> st] : t \in LegacyTypes, st \in LegacySubtypes}

\* Union of two dicts with disjoint keys.
Merge(d1, d2) ==
    [k \in DOMAIN d1 \cup DOMAIN d2 |-> IF k \in DOMAIN d1 THEN d1[k] ELSE d2[k]]

LegacyEntries ==
    {[created |-> "2020-01-01", updated |-> "2020-02-02", version_id |-> 1,
      json |-> Merge(Merge(a, c),
                     [conceptrecid |-> "100", owners |-> <<7>>, resource_type |-> rt])] :
        a \in LegacyAccess, c \in LegacyCommunities, rt \in LegacyResourceTypes}

InitMigrator ==
    /\ entry \in LegacyEntries
    /\ rdm = Idle
    /\ dumped = Idle
    /\ GrantsIdle /\ HookIdle /\ LegacyIdle /\ ViewsIdle

\* The transform of one entry: the record's access and metadata, the parent.
Transform ==
    /\ rdm = Idle
    /\ rdm' = [kind |-> "transformed",
               access |-> _access(entry),
               metadata |-> [resource_type |-> _resource_type(entry.json.resource_type)],
               parent |-> _parent(entry)]
    /\ UNCHANGED <<entry, dumped, grants_vars, hook_vars, legacy_vars, views_vars>>

\* The legacy serializer's post_dump hook on the migrated metadata.
DumpResourceType ==
    /\ rdm # Idle
    /\ dumped = Idle
    /\ dumped' = [kind |-> "dumped",
                  result |-> dump_resource_type(<<>>, rdm.metadata)]
    /\ UNCHANGED <<entry, rdm, grants_vars, hook_vars, legacy_vars, views_vars>>

NextMigrator == Transform \/ DumpResourceType

SpecMigrator == InitMigrator /\ [][NextMigrator]_vars

\* C5: access.record is always "public"; access.files is "public" exactly
\* when access_right is "open" and "restricted" otherwise; the embargo entry
\* is there exactly when access_right is "embargoed", with until equal to
\* the legacy embargo_date and active true.
C5_Access ==
    rdm # Idle =>
        LET rec == entry.json
            out == rdm.access
        IN /\ out.kind = "return"
           /\ out.value.record = "public"
           /\ out.value.files \in {"public", "restricted"}
           /\ (out.value.files = "public") <=> (rec.access_right = "open")
           /\ ("embargo" \in DOMAIN out.value) <=> (rec.access_right = "embargoed")
           /\ (rec.access_right = "embargoed") =>
                 out.value.embargo = [until |-> rec.embargo_date, active |-> TRUE]

\* An embargoed record has been transformed.
C5_Witness ==
    /\ rdm # Idle
    /\ entry.json.access_right = "embargoed"
    /\ rdm.access.kind = "return"
    /\ rdm.access.value.embargo.until = "2031-06-30"

\* C6: the parent's communities is the empty mapping when the legacy record
\* has no communities, an empty list or an empty first slug, and otherwise
\* {ids: [s], default: s} for the first slug s; so a default community is a
\* member of ids, and ids never holds more than one slug.
C6_ParentCommunities ==
    rdm # Idle =>
        LET rec == entry.json
            out == rdm.parent.json.communities
            none == \/ "communities" \notin DOMAIN rec
                    \/ rec.communities = <<>>
                    \/ rec.communities[1] = ""
        IN /\ none => DOMAIN out = {}
           /\ (~none) => out = [ids |-> <<rec.communities[1]>>, default |-> rec.communities[1]]
           /\ ("default" \in DOMAIN out) =>
                 /\ \E i \in 1..Len(out.ids) : out.ids[i] = out.default
                 /\ Len(out.ids) = 1

\* A legacy record of two different communities has been transformed.
C6_Witness ==
    /\ rdm # Idle
    /\ "communities" \in DOMAIN entry.json
    /\ Len(entry.json.communities) = 2
    /\ entry.json.communities[1] = "c2"
    /\ entry.json.communities[2] = "c1"
    /\ rdm.parent.json.communities.default = "c2"

\* The round trip of the claim, for the entry's legacy resource type.
RoundTrips ==
    LET t == entry.json.resource_type.type
        st == Get(entry.json.resource_type, "subtype", <<>>)
        out == dumped.result
    IN /\ UploadTypeKey \in DOMAIN out
       /\ out[UploadTypeKey] = t
       /\ (st # <<>>) => (TypeKey(t) \in DOMAIN out /\ out[TypeKey(t)] = st)
       /\ (st = <<>>) => TypeKey(t) \notin DOMAIN out

\* C7 as claimed: for every legacy resource_type {type: t, subtype: s},
\* migrating it and dumping the resulting id gives upload_type = t, and
\* "<t>_type" = s when s is not empty, no "<t>_type" key otherwise.
C7_RoundTripEvery == dumped # Idle => RoundTrips

\* The legacy resource types the round trip holds for: no "-" in the type or
\* the subtype, and a type that is not empty and not "upload" (whose
\* "<t>_type" key is the upload_type key itself).
Separable(rt) ==
    LET t == rt.type
        st == Get(rt, "subtype", <<>>)
    IN /\ ~Contains(t, "-")
       /\ ~Contains(st, "-")
       /\ t # <<>>
       /\ t # Upload

\* C7, amended: the round trip holds for every legacy resource type whose
\* type and subtype hold no "-" and whose type is neither empty nor
\* "upload".
C7_RoundTripSeparable ==
    (dumped # Idle /\ Separable(entry.json.resource_type)) => RoundTrips

\* A type with a subtype, neither holding a "-", has gone the round trip.
C7_Witness ==
    /\ dumped # Idle
    /\ entry.json.resource_type = [type |-> <<"p", "p">>, subtype |-> <<"q">>]
    /\ dumped.result[TypeKey(<<"p", "p">>)] = <<"q">>

(***************************************************************************)
(* create_blueprint.handle_validation_errors                               *)
(***************************************************************************)

\* Most fields in the messages of a ValidationError drawn.
MaxErrorFields == 3

\* The for loop over dic.items(): one {field, messages} per item, in order.
\* A dict is given as the sequence of its items.
deserialize(items) ==
    [i \in 1..Len(items) |-> [field |-> items[i][1], messages |-> items[i][2]]]

\* handle_validation_errors(e).  An error is a record of its class and its
\* attributes; reading an attribute the object has not raises AttributeError,
\* as does dic.items() on messages that are a list.
handle_validation_errors(err) ==
    IF err.class = "ValidationError"
    THEN IF err.messages.type = "dict"
         THEN [kind |-> "return", status |-> 400,
               body |-> [errors |-> deserialize(err.messages.items)]]
         ELSE [kind |-> "raise", exc |-> "AttributeError"]
    ELSE IF "message" \in DOMAIN err
         THEN [kind |-> "return", status |-> 400, body |-> err.message]
         ELSE [kind |-> "raise", exc |-> "AttributeError"]

\* marshmallow's ValidationError.messages: a dict of field -> messages from a
\* schema, or the list [message] when raised with a plain message.
ErrorFields == {"title", "doi", "description", "_schema"}
FieldMessages == {<<"Missing data for required field.">>, <<"Not a valid string.", "Too long.">>}
MessagesDicts ==
    {[type |-> "dict", items |-> it] : it \in
        {v \in SeqUpTo(ErrorFields \X FieldMessages, MaxErrorFields) :
            \A i, j \in 1..Len(v) : i # j => v[i][1] # v[j][1]}}
MessagesLists == {[type |-> "list", items |-> m] : m \in FieldMessages}

ValidationErrors ==
    {[class |-> "ValidationError", messages |-> m, field_name |-> "_schema",
      data |-> "request data", valid_data |-> "valid data"] :
        m \in MessagesDicts \cup MessagesLists}

\* What the handler registered for status 400 receives: werkzeug's
\* BadRequest (code, description; no message attribute), or a subclass of the
\* application's that carries a message.
BadRequests ==
    {[class |-> "BadRequest", code |-> 400, description |-> d] :
        d \in {"The browser sent a request that this server could not understand.", "Bad JSON."}}
    \cup {[class |-> "MessageBadRequest", code |-> 400, description |-> "Bad JSON.",
           message |-> "Bad JSON."]}

Errors == ValidationErrors \cup BadRequests

InitViews ==
    /\ e \in Errors
    /\ response = Idle
    /\ GrantsIdle /\ HookIdle /\ LegacyIdle /\ MigratorIdle

HandleError ==
    /\ response = Idle
    /\ response' = handle_validation_errors(e)
    /\ UNCHANGED <<e, grants_vars, hook_vars, legacy_vars, migrator_vars>>

NextViews == HandleError

SpecViews == InitViews /\ [][NextViews]_vars

\* C10: every error delivered to handle_validation_errors gives a response
\* of status 400 and no further exception; for a ValidationError the body is
\* {errors: [...]} with one {field, messages} entry per field of the error's
\* messages, in their order; for any other error it is the error's message.
C10_Always400 ==
    response # Idle =>
        /\ response.kind = "return"
        /\ response.status = 400
        /\ (e.class = "ValidationError") =>
              /\ Len(response.body.errors) = Len(e.messages.items)
              /\ \A i \in 1..Len(e.messages.items) :
                    response.body.errors[i]
                       = [field |-> e.messages.items[i][1],
                          messages |-> e.messages.items[i][2]]
        /\ (e.class # "ValidationError") => response.body = e.message

====
